---------------------------- MODULE Spec2Model ----------------------------
(***************************************************************************)
(* Model of sync_folders.py: the one-way periodic mirroring of a source    *)
(* directory tree onto a replica tree.                                     *)
(*                                                                         *)
(* A relative path is the sequence of its characters, so that Python's     *)
(* substring test `folder in item` and `x.count(os.path.sep)` are computed *)
(* on the same strings as the program computes them.  A tree maps every    *)
(* path of a small universe to an entry (absent, file with modification    *)
(* time and content, or directory).                                        *)
(*                                                                         *)
(* The cycle is split at the calls sync_folders makes (snapshot+diff,      *)
(* delete_files, create_files, update_files) so that outside changes and   *)
(* the interrupt can fall between them.  The log keeps the lines appended  *)
(* to the log file since the current loop iteration began.                 *)
(***************************************************************************)
EXTENDS Integers, Sequences, FiniteSets, TLC

\* ------------------------------------------------------------------ bounds
MaxTime == 2          \* modification timestamps are 1..MaxTime
MaxFail == 1          \* exceptions injected in one run: OS errors, the interrupt

\* ------------------------------------------------------- program constants
INFO    == "INFO"
ERROR   == "ERROR"
CREATED == "CREATED"
DELETED == "DELETED"
UPDATED == "UPDATED"

sep == "/"

\* ------------------------------------------------------------ path universe
pA  == <<"a">>
pAA == <<"a", "/", "a">>
pAD == <<"a", "/", "d">>
pD  == <<"d">>

Paths == {pA, pAA, pAD, pD}

\* The kinds each path of the universe takes.  a/a is never a directory and
\* a/d, d are never files, so that a copy into an existing directory stays
\* inside the universe.
KindsOf(p) ==
    IF p = pA THEN {"none", "file", "dir"}
    ELSE IF p = pAA THEN {"none", "file"}
    ELSE {"none", "dir"}

Times    == 1..MaxTime
Contents == {"v", "w"}

NoEntry  == [kind |-> "none", mtime |-> 0, content |-> "-"]
DirEntry == [kind |-> "dir",  mtime |-> 0, content |-> "-"]
FileEntry(m, c) == [kind |-> "file", mtime |-> m, content |-> c]

EntriesOf(p) ==
    (IF "none" \in KindsOf(p) THEN {NoEntry} ELSE {}) \cup
    (IF "dir"  \in KindsOf(p) THEN {DirEntry} ELSE {}) \cup
    (IF "file" \in KindsOf(p) THEN {FileEntry(m, c) : m \in Times, c \in Contents} ELSE {})

\* ------------------------------------------------------------ path algebra
Range(s) == {s[i] : i \in 1..Len(s)}

\* str.count(os.path.sep)
count(x) == Cardinality({i \in 1..Len(x) : x[i] = sep})

\* Python's `sub in s` on strings
Contains(sub, s) ==
    \E i \in 0..(Len(s) - Len(sub)) : SubSeq(s, i + 1, i + Len(sub)) = sub

\* os.path.join(a, b) on relative paths
join(a, b) == a \o <<sep>> \o b

LastSep(p) ==
    LET S == {i \in 1..Len(p) : p[i] = sep}
    IN  IF S = {} THEN 0 ELSE CHOOSE i \in S : \A j \in S : j <= i

\* os.path.dirname / os.path.basename
dirname(p)  == SubSeq(p, 1, LastSep(p) - 1)
basename(p) == SubSeq(p, LastSep(p) + 1, Len(p))

\* q is p or lies beneath p in the directory tree
IsUnder(q, p) ==
    \/ q = p
    \/ /\ Len(q) > Len(p) + 1
       /\ SubSeq(q, 1, Len(p) + 1) = p \o <<sep>>

\* the directory that holds p exists (the root always does)
ParentIsDir(tree, p) ==
    count(p) = 0 \/ (dirname(p) \in Paths /\ tree[dirname(p)].kind = "dir")

WellFormed(tree) ==
    \A p \in Paths : tree[p].kind # "none" => ParentIsDir(tree, p)

Trees == {t \in [Paths -> UNION {EntriesOf(p) : p \in Paths}] :
            /\ \A p \in Paths : t[p] \in EntriesOf(p)
            /\ WellFormed(t)}

EmptyTree == [p \in Paths |-> NoEntry]

\* ------------------------------------------------------ iteration order
\* A Python set is iterated in an order the program does not choose; an
\* order of S is a sequence holding
\* every member of S once.
RECURSIVE OrdersOf(_)
OrdersOf(S) ==
    IF S = {} THEN {<<>>}
    ELSE UNION {{<<x>> \o o : o \in OrdersOf(S \ {x})} : x \in S}

\* for x in S, under order o: one order o of the paths of a stage gives the
\* iteration order of each set the stage walks
iter(S, o) == SelectSeq(o, LAMBDA x : x \in S)

MaxCount == CHOOSE n \in 0..8 : /\ \E p \in Paths : count(p) = n
                                /\ \A p \in Paths : count(p) <= n

RECURSIVE sorted_from(_, _)
sorted_from(s, d) ==
    IF d > MaxCount THEN <<>>
    ELSE SelectSeq(s, LAMBDA x : count(x) = d) \o sorted_from(s, d + 1)

\* sorted(S, key=lambda x: x.count(os.path.sep)), a stable sort
sorted_by_count(S, o) == sorted_from(iter(S, o), 0)

\* --------------------------------------------------------------- snapshot
\* get_all_files_and_folders
get_all_files_and_folders(tree) ==
    [files   |-> {p \in Paths : tree[p].kind = "file"},
     folders |-> {p \in Paths : tree[p].kind = "dir"}]

NoDiff == [deleted_files |-> {}, deleted_folders |-> {}, created_files |-> {},
           created_folders |-> {}, common_files |-> {}]

\* the set expressions with created_files taken as all the source files
ComputeDiffAllSourceFiles(s, r) ==
    [deleted_files   |-> r.files \ s.files,
     deleted_folders |-> r.folders \ s.folders,
     created_files   |-> s.files,
     created_folders |-> s.folders \ r.folders,
     common_files    |-> s.files \cap r.files]

\* the set expressions with deleted_files taken as all the replica files
ComputeDiffAllReplicaFiles(s, r) ==
    [deleted_files   |-> r.files,
     deleted_folders |-> r.folders \ s.folders,
     created_files   |-> s.files \ r.files,
     created_folders |-> s.folders \ r.folders,
     common_files    |-> s.files \cap r.files]

\* the five set expressions of sync_folders
ComputeDiff(s, r) ==
    [deleted_files   |-> r.files \ s.files,
     deleted_folders |-> r.folders \ s.folders,
     created_files   |-> s.files \ r.files,
     created_folders |-> s.folders \ r.folders,
     common_files    |-> s.files \cap r.files]

\* the line log_message appends: CREATED, DELETED and UPDATED lines hold the
\* path alone, an ERROR line the path and what could not be done
LogLine(level, item) == [level |-> level, item |-> item, note |-> ""]
ErrorLine(item, note) == [level |-> ERROR, item |-> item, note |-> note]
InfoLine(note) == [level |-> INFO, item |-> <<>>, note |-> note]


\* ----------------------------------------------------- filesystem calls
\* Every call gives [ok, tree]: ok is FALSE when the call raises OSError,
\* either because the state of the tree forces it (missing path, wrong
\* kind, existing destination) or because the failure is injected
\* (permission denied, device error).

\* the entries a failed recursive call had already handled: those of part
\* beneath f
RemovedBeforeFailure(tree, f, part) ==
    {p \in part : /\ IsUnder(p, f) /\ p # f
                  /\ \A q \in Paths : (IsUnder(q, p) /\ tree[q].kind # "none") => q \in part}

\* shutil.rmtree(folder_path)
rmtree(tree, f, injected, part) ==
    IF tree[f].kind # "dir" THEN [ok |-> FALSE, tree |-> tree]
    ELSE IF injected
         THEN [ok |-> FALSE,
               tree |-> [p \in Paths |-> IF p \in RemovedBeforeFailure(tree, f, part)
                                         THEN NoEntry ELSE tree[p]]]
         ELSE [ok |-> TRUE,
               tree |-> [p \in Paths |-> IF IsUnder(p, f) THEN NoEntry ELSE tree[p]]]

\* os.remove(file_path)
remove(tree, p, injected) ==
    IF tree[p].kind # "file" \/ injected THEN [ok |-> FALSE, tree |-> tree]
    ELSE [ok |-> TRUE, tree |-> [tree EXCEPT ![p] = NoEntry]]

Ancestors(p) == {q \in Paths : IsUnder(p, q) /\ q # p}

\* the entries a failed copytree had already copied: f and those of part
\* beneath f whose directories were copied too
CopiedBeforeFailure(f, part) ==
    {p \in part : /\ IsUnder(p, f) /\ f \in part
                  /\ \A q \in Ancestors(p) : IsUnder(q, f) => q \in part}

\* shutil.copytree(source_folder_path, destination_folder_path): scans the
\* source, os.makedirs the destination (and its missing parents), copies
\* every entry with copy2
copytree(s, d, f, injected, part) ==
    IF \/ s[f].kind # "dir"
       \/ d[f].kind # "none"
       \/ \E q \in Ancestors(f) : d[q].kind = "file"
    THEN [ok |-> FALSE, tree |-> d]
    ELSE LET copied == IF injected THEN CopiedBeforeFailure(f, part)
                       ELSE {p \in Paths : IsUnder(p, f)}
         IN  [ok |-> ~injected,
              tree |-> [p \in Paths |->
                          IF p \in copied THEN s[p]
                          ELSE IF p \in Ancestors(f) /\ copied # {} THEN DirEntry
                          ELSE d[p]]]

\* where shutil.copy2(src, dst) writes: into dst when dst is a directory
copy2_target(d, p) ==
    IF d[p].kind = "dir" THEN join(p, basename(p)) ELSE p

\* shutil.copy in the place of shutil.copy2: the content without the
\* modification time, the copy gets a timestamp of its own
copy_without_stat(s, d, p, injected) ==
    LET t == copy2_target(d, p)
    IN  IF \/ injected
           \/ s[p].kind # "file"
           \/ t \notin Paths
           \/ d[t].kind = "dir"
           \/ ~ParentIsDir(d, t)
        THEN [ok |-> FALSE, tree |-> d]
        ELSE [ok |-> TRUE,
              tree |-> [d EXCEPT ![t] = FileEntry((s[p].mtime % MaxTime) + 1, s[p].content)]]

\* shutil.copy2(source_file_path, destination_file_path): content and
\* modification time of the source file
copy2(s, d, p, injected) ==
    LET t == copy2_target(d, p)
    IN  IF \/ injected
           \/ s[p].kind # "file"
           \/ t \notin Paths
           \/ d[t].kind = "dir"
           \/ ~ParentIsDir(d, t)
        THEN [ok |-> FALSE, tree |-> d]
        ELSE [ok |-> TRUE, tree |-> [d EXCEPT ![t] = s[p]]]

\* os.path.getmtime(path) raises when the path is missing
getmtime_raises(tree, p, injected) == injected \/ tree[p].kind = "none"
getmtime(tree, p) == tree[p].mtime

\* ------------------------------------------------------------ delete_files
\* st = [tree, done, log, errs, ops, calls]: the replica, deleted_items or
\* created_items, the lines logged by the stage, the calls that raised
\* OSError, the number of calls that changed the replica and returned, the
\* calls made in the order they were made

Lines(level, items) == [i \in 1..Len(items) |-> LogLine(level, items[i])]

Call(op, p) == [op |-> op, path |-> p]
NoCall == Call("none", <<>>)

NewStage(tree) ==
    [tree |-> tree, done |-> {}, log |-> <<>>, errs |-> {}, ops |-> 0, calls |-> <<>>]

DeleteFolderStep(f, items, o, fail, part, st) ==
    IF f \in st.done THEN st
    ELSE LET r == rmtree(st.tree, f, f \in fail, part)
             marked == SelectSeq(iter(items, o), LAMBDA item : Contains(f, item))
         IN  IF r.ok
             THEN [st EXCEPT !.tree = r.tree, !.done = @ \cup Range(marked),
                             !.log = @ \o Lines(DELETED, marked), !.ops = @ + 1,
                             !.calls = Append(@, Call("rmtree", f))]
             ELSE [st EXCEPT !.tree = r.tree,
                             !.log = Append(@, ErrorLine(f, "could not be deleted")),
                             !.errs = @ \cup {Call("rmtree", f)},
                             !.calls = Append(@, Call("rmtree", f))]

RECURSIVE DeleteFolderLoop(_, _, _, _, _, _)
DeleteFolderLoop(todo, items, o, fail, part, st) ==
    IF todo = <<>> THEN st
    ELSE DeleteFolderLoop(Tail(todo), items, o, fail, part,
                          DeleteFolderStep(Head(todo), items, o, fail, part, st))

\* the file loop of delete_files with a handler that logs nothing
DeleteFileStepSilent(p, fail, st) ==
    IF p \in st.done THEN st
    ELSE LET r == remove(st.tree, p, p \in fail)
         IN  IF r.ok
             THEN [st EXCEPT !.tree = r.tree, !.log = Append(@, LogLine(DELETED, p)),
                             !.ops = @ + 1, !.calls = Append(@, Call("remove", p))]
             ELSE [st EXCEPT !.errs = @ \cup {Call("remove", p)},
                             !.calls = Append(@, Call("remove", p))]

DeleteFileStep(p, fail, st) ==
    IF p \in st.done THEN st
    ELSE LET r == remove(st.tree, p, p \in fail)
         IN  IF r.ok
             THEN [st EXCEPT !.tree = r.tree, !.log = Append(@, LogLine(DELETED, p)),
                             !.ops = @ + 1, !.calls = Append(@, Call("remove", p))]
             ELSE [st EXCEPT !.log = Append(@, ErrorLine(p, "could not be deleted")),
                             !.errs = @ \cup {Call("remove", p)},
                             !.calls = Append(@, Call("remove", p))]

RECURSIVE DeleteFileLoop(_, _, _)
DeleteFileLoop(todo, fail, st) ==
    IF todo = <<>> THEN st
    ELSE DeleteFileLoop(Tail(todo), fail, DeleteFileStep(Head(todo), fail, st))

delete_files(all_folders, all_files, tree, o, fail, part) ==
    DeleteFileLoop(iter(all_files, o), fail,
                   DeleteFolderLoop(sorted_by_count(all_folders, o),
                                    all_folders \cup all_files, o, fail, part,
                                    NewStage(tree)))

\* ------------------------------------------------------------ create_files
CreateFolderStep(f, items, s, o, fail, part, st) ==
    IF f \in st.done THEN st
    ELSE LET r == copytree(s, st.tree, f, f \in fail, part)
             marked == SelectSeq(iter(items, o), LAMBDA item : Contains(f, item))
         IN  IF r.ok
             THEN [st EXCEPT !.tree = r.tree, !.done = @ \cup Range(marked),
                             !.log = @ \o Lines(CREATED, marked), !.ops = @ + 1,
                             !.calls = Append(@, Call("copytree", f))]
             ELSE [st EXCEPT !.tree = r.tree,
                             !.log = Append(@, ErrorLine(f, "could not be created")),
                             !.errs = @ \cup {Call("copytree", f)},
                             !.calls = Append(@, Call("copytree", f))]

RECURSIVE CreateFolderLoop(_, _, _, _, _, _, _)
CreateFolderLoop(todo, items, s, o, fail, part, st) ==
    IF todo = <<>> THEN st
    ELSE CreateFolderLoop(Tail(todo), items, s, o, fail, part,
                          CreateFolderStep(Head(todo), items, s, o, fail, part, st))

CreateFileStep(p, s, fail, st) ==
    IF p \in st.done THEN st
    ELSE LET r == copy2(s, st.tree, p, p \in fail)
         IN  IF r.ok
             THEN [st EXCEPT !.tree = r.tree, !.log = Append(@, LogLine(CREATED, p)),
                             !.ops = @ + 1, !.calls = Append(@, Call("copy2", p))]
             ELSE [st EXCEPT !.log = Append(@, ErrorLine(p, "could not be created")),
                             !.errs = @ \cup {Call("copy2", p)},
                             !.calls = Append(@, Call("copy2", p))]

RECURSIVE CreateFileLoop(_, _, _, _)
CreateFileLoop(todo, s, fail, st) ==
    IF todo = <<>> THEN st
    ELSE CreateFileLoop(Tail(todo), s, fail, CreateFileStep(Head(todo), s, fail, st))

create_files(all_folders, all_files, s, d, o, fail, part) ==
    CreateFileLoop(iter(all_files, o), s, fail,
                   CreateFolderLoop(sorted_by_count(all_folders, o),
                                    all_folders \cup all_files, s, o, fail, part,
                                    NewStage(d)))

\* ------------------------------------------------------------ update_files
\* update_files without the comparison of the two timestamps
UpdateFileStepAlways(p, s, failMtime, failCopy, st) ==
    IF st.raised # {} THEN st
    ELSE IF getmtime_raises(s, p, FALSE) \/ getmtime_raises(st.tree, p, p \in failMtime)
         THEN [st EXCEPT !.raised = {Call("getmtime", p)}]
         ELSE LET r == copy2(s, st.tree, p, p \in failCopy)
              IN  IF r.ok
                  THEN [st EXCEPT !.tree = r.tree,
                                  !.log = Append(@, LogLine(UPDATED, p)),
                                  !.ops = @ + 1]
                  ELSE [st EXCEPT !.log = Append(@, ErrorLine(p, "could not be updated")),
                                  !.errs = @ \cup {Call("copy2", p)}]

\* update_files comparing the contents of the two files, not the timestamps
UpdateFileStepByContent(p, s, failMtime, failCopy, st) ==
    IF st.raised # {} THEN st
    ELSE IF getmtime_raises(s, p, FALSE)
         THEN [st EXCEPT !.raised = {Call("getmtime", p)}]
         ELSE IF getmtime_raises(st.tree, p, p \in failMtime)
         THEN [st EXCEPT !.raised = {Call("getmtime", p)}]
         ELSE IF st.tree[p].content # s[p].content
              THEN LET r == copy2(s, st.tree, p, p \in failCopy)
                   IN  IF r.ok
                       THEN [st EXCEPT !.tree = r.tree,
                                       !.log = Append(@, LogLine(UPDATED, p)),
                                       !.ops = @ + 1]
                       ELSE [st EXCEPT !.log = Append(@, ErrorLine(p, "could not be updated")),
                                       !.errs = @ \cup {Call("copy2", p)}]
              ELSE st

\* st.raised holds the getmtime call that raised: no handler of update_files
\* catches it, the loop ends there and the error leaves sync_folders
UpdateFileStep(p, s, failMtime, failCopy, st) ==
    IF st.raised # {} THEN st
    ELSE IF getmtime_raises(s, p, FALSE)
         THEN [st EXCEPT !.raised = {Call("getmtime", p)}]
         ELSE IF getmtime_raises(st.tree, p, p \in failMtime)
         THEN [st EXCEPT !.raised = {Call("getmtime", p)}]
         ELSE IF getmtime(st.tree, p) # getmtime(s, p)
              THEN LET r == copy2(s, st.tree, p, p \in failCopy)
                   IN  IF r.ok
                       THEN [st EXCEPT !.tree = r.tree,
                                       !.log = Append(@, LogLine(UPDATED, p)),
                                       !.ops = @ + 1]
                       ELSE [st EXCEPT !.log = Append(@, ErrorLine(p, "could not be updated")),
                                       !.errs = @ \cup {Call("copy2", p)}]
              ELSE st

RECURSIVE UpdateFileLoop(_, _, _, _, _)
UpdateFileLoop(todo, s, failMtime, failCopy, st) ==
    IF todo = <<>> THEN st
    ELSE UpdateFileLoop(Tail(todo), s, failMtime, failCopy,
                        UpdateFileStep(Head(todo), s, failMtime, failCopy, st))

update_files(all_files, s, d, o, failMtime, failCopy) ==
    UpdateFileLoop(iter(all_files, o), s, failMtime, failCopy,
                   [tree |-> d, log |-> <<>>, errs |-> {}, ops |-> 0, raised |-> {}])


\* ------------------------------------------------------------------ state
VARIABLES
    pc,       \* where main is
    src,      \* the source tree
    rep,      \* the replica tree
    missing,  \* the monitored paths that do not exist
    diff,     \* the five sets of the running cycle
    log,      \* the lines appended to the log file in this loop iteration
    result,   \* what the last call of sync_folders returned
    errs,     \* the calls that raised OSError in the running cycle
    ops,      \* the calls that changed the replica in the running cycle
    inj,      \* the exceptions injected so far
    outside,  \* the outside event of this run: none, or what it fell on
    dirty,    \* the outside change fell between the snapshot and the return
    prevCalm, \* a cycle has returned and no outside change fell since its snapshot
    prevErrs, \* the calls that raised OSError in the cycle before
    lastSync, \* per path, the source timestamp the cycle before left on both sides
    cut       \* the call the interrupt cut short, when there was one

hist == <<prevCalm, prevErrs, lastSync>>
vars == <<pc, src, rep, missing, diff, log, result, errs, ops, inj, outside, dirty, hist, cut>>

Monitored == {"log folder", "log file", "source", "replica"}

\* main is inside its try block
Running == {"loop", "call", "delete", "create", "update", "returned", "sleep"}
\* sync_folders holds a snapshot
InCycle == {"delete", "create", "update"}

\* main has checked the three folders and created the log file
Init ==
    /\ pc = "loop"
    /\ src \in Trees
    /\ rep \in Trees
    /\ missing = {}
    /\ diff = NoDiff
    /\ log = <<>>
    /\ result = "none"
    /\ errs = {}
    /\ ops = 0
    /\ inj = 0
    /\ outside = "none"
    /\ dirty = FALSE
    /\ prevCalm = FALSE
    /\ prevErrs = {}
    /\ lastSync = [p \in Paths |-> 0]
    /\ cut = NoCall

\* log_message('Started synchronization', INFO, log_file_path): open(.., "a")
\* creates a missing log file and raises when the log folder is missing
Started ==
    /\ pc = "loop"
    /\ IF "log folder" \in missing
       THEN /\ pc' = "crashed"
            /\ UNCHANGED <<missing, log>>
       ELSE /\ pc' = "call"
            /\ missing' = missing \ {"log file"}
            /\ log' = Append(log, InfoLine("Started synchronization"))
    /\ UNCHANGED <<src, rep, diff, result, errs, ops, inj, outside, dirty, hist, cut>>

\* sync_folders with a precondition that leaves out the replica path
EnterNoReplicaCheck ==
    /\ pc = "call"
    /\ IF missing \ {"replica"} # {}
       THEN /\ result' = "False"
            /\ pc' = "returned"
            /\ diff' = diff
       ELSE /\ diff' = ComputeDiff(get_all_files_and_folders(src),
                                   get_all_files_and_folders(rep))
            /\ pc' = "delete"
            /\ result' = result
    /\ UNCHANGED <<src, rep, missing, log, errs, ops, inj, outside, dirty, hist, cut>>

\* sync_folders without its call of delete_files: the snapshot is followed
\* by create_files
EnterCreateFirst ==
    /\ pc = "call"
    /\ IF missing # {}
       THEN /\ result' = "False"
            /\ pc' = "returned"
            /\ diff' = diff
       ELSE /\ diff' = ComputeDiff(get_all_files_and_folders(src),
                                   get_all_files_and_folders(rep))
            /\ pc' = "create"
            /\ result' = result
    /\ UNCHANGED <<src, rep, missing, log, errs, ops, inj, outside, dirty, hist, cut>>

\* sync_folders up to the five set expressions
Enter ==
    /\ pc = "call"
    /\ IF missing # {}
       THEN /\ result' = "False"
            /\ pc' = "returned"
            /\ diff' = diff
       ELSE /\ diff' = ComputeDiff(get_all_files_and_folders(src),
                                   get_all_files_and_folders(rep))
            /\ pc' = "delete"
            /\ result' = result
    /\ UNCHANGED <<src, rep, missing, log, errs, ops, inj, outside, dirty, hist, cut>>

\* the sets of calls that may be made to fail: at most n of them
FailSets(items, n) == {F \in SUBSET items : Cardinality(F) <= n}

\* the descendants a failing recursive call may have handled
PartsFor(fail, folders) ==
    SUBSET {p \in Paths : \E f \in fail \cap folders : IsUnder(p, f)}

DeleteStage(maxFail) ==
    /\ pc = "delete"
    /\ \E o \in OrdersOf(diff.deleted_folders \cup diff.deleted_files) :
       \E fail \in FailSets(diff.deleted_folders \cup diff.deleted_files, maxFail - inj) :
       \E part \in PartsFor(fail, diff.deleted_folders) :
       \E st \in {delete_files(diff.deleted_folders, diff.deleted_files, rep,
                           o, fail, part)} :
              /\ rep' = st.tree
              /\ log' = log \o st.log
              /\ errs' = errs \cup st.errs
              /\ ops' = ops + st.ops
              /\ inj' = inj + Cardinality(fail)
    /\ pc' = "create"
    /\ UNCHANGED <<src, missing, diff, result, outside, dirty, hist, cut>>

CreateStage(maxFail) ==
    /\ pc = "create"
    /\ \E o \in OrdersOf(diff.created_folders \cup diff.created_files) :
       \E fail \in FailSets(diff.created_folders \cup diff.created_files, maxFail - inj) :
       \E part \in PartsFor(fail, diff.created_folders) :
       \E st \in {create_files(diff.created_folders, diff.created_files, src, rep,
                           o, fail, part)} :
              /\ rep' = st.tree
              /\ log' = log \o st.log
              /\ errs' = errs \cup st.errs
              /\ ops' = ops + st.ops
              /\ inj' = inj + Cardinality(fail)
    /\ pc' = "update"
    /\ UNCHANGED <<src, missing, diff, result, outside, dirty, hist, cut>>

\* update_files called with the source and the destination path exchanged
UpdateStageIntoSource(maxFail) ==
    /\ pc = "update"
    /\ \E o \in OrdersOf(diff.common_files) :
       \E failCopy \in FailSets(diff.common_files, maxFail - inj) :
       \E st \in {update_files(diff.common_files, rep, src, o, {}, failCopy)} :
              /\ src' = st.tree
              /\ log' = log \o st.log
              /\ errs' = errs \cup st.errs \cup st.raised
              /\ ops' = ops + st.ops
              /\ inj' = inj + Cardinality(failCopy)
              /\ IF st.raised # {}
                 THEN pc' = "crashed" /\ result' = result
                 ELSE pc' = "returned" /\ result' = "True"
    /\ diff' = NoDiff
    /\ UNCHANGED <<rep, missing, outside, dirty, hist, cut>>

\* update_files and the return of sync_folders; an error that leaves
\* update_files leaves sync_folders and main, whose try catches
\* KeyboardInterrupt only
UpdateStage(maxFail) ==
    /\ pc = "update"
    /\ \E o \in OrdersOf(diff.common_files) :
       \E failMtime \in FailSets(diff.common_files, maxFail - inj) :
       \E failCopy \in FailSets(diff.common_files \ failMtime,
                                maxFail - inj - Cardinality(failMtime)) :
       \E st \in {update_files(diff.common_files, src, rep, o, failMtime, failCopy)} :
              /\ rep' = st.tree
              /\ log' = log \o st.log
              /\ errs' = errs \cup st.errs \cup st.raised
              /\ ops' = ops + st.ops
              /\ inj' = inj + Cardinality(failMtime) + Cardinality(failCopy)
              /\ IF st.raised # {}
                 THEN pc' = "crashed" /\ result' = result
                 ELSE pc' = "returned" /\ result' = "True"
    /\ diff' = NoDiff
    /\ UNCHANGED <<src, missing, outside, dirty, hist, cut>>

Delete == DeleteStage(MaxFail)
Create == CreateStage(MaxFail)
Update == UpdateStage(MaxFail)

\* main after the call: the ERROR line of a False result goes to the console
\* only
Returned ==
    /\ pc = "returned"
    /\ IF result = "False"
       THEN pc' = "exit" /\ log' = log
       ELSE pc' = "sleep" /\ log' = Append(log, InfoLine("Finished synchronization"))
    /\ UNCHANGED <<src, rep, missing, diff, result, errs, ops, inj, outside, dirty, hist, cut>>

\* time.sleep(args.sync_interval) ends; the lines of the iteration are
\* behind
Sleep ==
    /\ pc = "sleep"
    /\ pc' = "loop"
    /\ log' = <<>>
    /\ errs' = {}
    /\ ops' = 0
    /\ dirty' = FALSE
    /\ prevCalm' = ~dirty
    /\ prevErrs' = errs
    /\ lastSync' = [p \in Paths |->
                      IF /\ src[p].kind = "file" /\ rep[p].kind = "file"
                         /\ src[p].mtime = rep[p].mtime
                      THEN src[p].mtime ELSE 0]
    /\ UNCHANGED <<src, rep, missing, diff, result, inj, outside, cut>>

\* KeyboardInterrupt inside the try block of main
Interrupt ==
    /\ pc \in Running
    /\ outside \in {"none", "paths"}
    /\ inj < MaxFail
    /\ inj' = inj + 1
    /\ IF "log folder" \in missing
       THEN pc' = "crashed" /\ log' = log
       ELSE /\ pc' = "interrupted"
            /\ log' = Append(log, InfoLine("Synchronization interrupted by user. Exiting..."))
    /\ diff' = NoDiff
    /\ UNCHANGED <<src, rep, missing, result, errs, ops, outside, dirty, hist, cut>>

\* ---------------------------------------------- a call that is cut short
\* KeyboardInterrupt is no OSError: no handler of a stage catches it, it
\* leaves the stage at the call it arrives in. What the call leaves behind
\* is not chosen by the program: nothing, a part of its work, or all of it
\* with the line still to be logged.
rmtree_cut(tree, f) ==
    {rmtree(tree, f, TRUE, part).tree : part \in PartsFor({f}, {f})}
        \cup {rmtree(tree, f, FALSE, {}).tree}

remove_cut(tree, p) == {tree, remove(tree, p, FALSE).tree}

copytree_cut(s, d, f) ==
    {copytree(s, d, f, TRUE, part).tree : part \in PartsFor({f}, {f})}
        \cup {copytree(s, d, f, FALSE, {}).tree}

\* a destination file that is open for writing holds any part of the
\* content and the time of the write
copy2_cut(s, d, p) ==
    IF copy2(s, d, p, FALSE).ok
    THEN {d} \cup {[d EXCEPT ![copy2_target(d, p)] = FileEntry(m, c)] :
                     m \in Times, c \in Contents}
    ELSE {d}

\* the stage as the interrupt leaves it: st of the calls before, t of the
\* call that is cut short
CutStage(st, t, call) ==
    [tree |-> t, log |-> st.log, errs |-> st.errs, ops |-> st.ops, cut |-> call]

\* delete_files interrupted in one of its calls
InterruptedDelete(all_folders, all_files, tree, o) ==
    LET folders == sorted_by_count(all_folders, o)
        files   == iter(all_files, o)
        items   == all_folders \cup all_files
        FoldersBefore(k) == DeleteFolderLoop(SubSeq(folders, 1, k - 1), items, o, {}, {},
                                             NewStage(tree))
        FilesBefore(k)   == DeleteFileLoop(SubSeq(files, 1, k - 1), {},
                                           FoldersBefore(Len(folders) + 1))
    IN  UNION ({ {CutStage(FoldersBefore(k), t, Call("rmtree", folders[k])) :
                    t \in rmtree_cut(FoldersBefore(k).tree, folders[k])} :
                 k \in {j \in 1..Len(folders) : folders[j] \notin FoldersBefore(j).done} }
               \cup
               { {CutStage(FilesBefore(k), t, Call("remove", files[k])) :
                    t \in remove_cut(FilesBefore(k).tree, files[k])} :
                 k \in {j \in 1..Len(files) : files[j] \notin FilesBefore(j).done} })

\* create_files interrupted in one of its calls
InterruptedCreate(all_folders, all_files, s, d, o) ==
    LET folders == sorted_by_count(all_folders, o)
        files   == iter(all_files, o)
        items   == all_folders \cup all_files
        FoldersBefore(k) == CreateFolderLoop(SubSeq(folders, 1, k - 1), items, s, o, {}, {},
                                             NewStage(d))
        FilesBefore(k)   == CreateFileLoop(SubSeq(files, 1, k - 1), s, {},
                                           FoldersBefore(Len(folders) + 1))
    IN  UNION ({ {CutStage(FoldersBefore(k), t, Call("copytree", folders[k])) :
                    t \in copytree_cut(s, FoldersBefore(k).tree, folders[k])} :
                 k \in {j \in 1..Len(folders) : folders[j] \notin FoldersBefore(j).done} }
               \cup
               { {CutStage(FilesBefore(k), t, Call("copy2", files[k])) :
                    t \in copy2_cut(s, FilesBefore(k).tree, files[k])} :
                 k \in {j \in 1..Len(files) : files[j] \notin FilesBefore(j).done} })

\* update_files interrupted in one of its calls of copy2
InterruptedUpdate(all_files, s, d, o) ==
    LET files == iter(all_files, o)
        Before(k) == UpdateFileLoop(SubSeq(files, 1, k - 1), s, {}, {},
                                    [tree |-> d, log |-> <<>>, errs |-> {}, ops |-> 0,
                                     raised |-> {}])
        Copies(k) == /\ Before(k).raised = {}
                     /\ ~getmtime_raises(s, files[k], FALSE)
                     /\ ~getmtime_raises(Before(k).tree, files[k], FALSE)
                     /\ getmtime(Before(k).tree, files[k]) # getmtime(s, files[k])
    IN  UNION { {CutStage(Before(k), t, Call("copy2", files[k])) :
                   t \in copy2_cut(s, Before(k).tree, files[k])} :
                k \in {j \in 1..Len(files) : Copies(j)} }

\* KeyboardInterrupt inside a call of delete_files, create_files or
\* update_files: it leaves the stage and sync_folders and reaches the
\* handler of main
InterruptCall ==
    /\ pc \in InCycle
    /\ outside = "none"
    /\ inj < MaxFail
    /\ inj' = inj + 1
    /\ \E o \in OrdersOf(Paths) :
       \E st \in (CASE pc = "delete" ->
                         InterruptedDelete(diff.deleted_folders, diff.deleted_files, rep, o)
                    [] pc = "create" ->
                         InterruptedCreate(diff.created_folders, diff.created_files,
                                           src, rep, o)
                    [] pc = "update" ->
                         InterruptedUpdate(diff.common_files, src, rep, o)) :
              /\ rep' = st.tree
              /\ errs' = errs \cup st.errs
              /\ ops' = ops + st.ops
              /\ cut' = st.cut
              /\ IF "log folder" \in missing
                 THEN pc' = "crashed" /\ log' = log \o st.log
                 ELSE /\ pc' = "interrupted"
                      /\ log' = Append(log \o st.log,
                                       InfoLine("Synchronization interrupted by user. Exiting..."))
    /\ diff' = NoDiff
    /\ UNCHANGED <<src, missing, result, outside, dirty, hist>>

\* ------------------------------------------------------------ environment
Vanish(tree, p) == [q \in Paths |-> IF IsUnder(q, p) THEN NoEntry ELSE tree[q]]

\* a file or folder of one of the trees vanishes between the snapshot and the
\* first call that changes the replica
EnvVanish ==
    /\ pc = "delete"
    /\ outside = "none"
    /\ \E p \in Paths :
         \/ /\ src[p].kind # "none"
            /\ src' = Vanish(src, p) /\ rep' = rep /\ outside' = "source"
         \/ /\ rep[p].kind # "none"
            /\ rep' = Vanish(rep, p) /\ src' = src /\ outside' = "replica"
    /\ dirty' = TRUE
    /\ UNCHANGED <<pc, missing, diff, log, result, errs, ops, inj, hist, cut>>

\* a file of the source is rewritten from outside during the sleep
EnvWrite ==
    /\ pc = "loop"
    /\ outside = "none"
    /\ \E p \in Paths : \E m \in Times : \E c \in Contents :
         /\ src[p].kind = "file" /\ src[p] # FileEntry(m, c)
         /\ src' = [src EXCEPT ![p] = FileEntry(m, c)]
    /\ outside' = "source"
    /\ prevCalm' = FALSE
    /\ UNCHANGED <<pc, rep, missing, diff, log, result, errs, ops, inj, dirty, prevErrs, lastSync, cut>>

\* one of the monitored paths is removed from outside, between the end of
\* one call of sync_folders and the next
EnvTeardown ==
    /\ pc \in {"loop", "call"}
    /\ outside = "none"
    /\ \E m \in Monitored :
         /\ missing' = (IF m = "log folder" THEN {m, "log file"} ELSE {m})
         /\ src' = IF m = "source" THEN EmptyTree ELSE src
         /\ rep' = IF m = "replica" THEN EmptyTree ELSE rep
    /\ outside' = "paths"
    /\ prevCalm' = FALSE
    /\ UNCHANGED <<pc, diff, log, result, errs, ops, inj, dirty, prevErrs, lastSync, cut>>

Next ==
    \/ Started \/ Enter \/ Delete \/ Create \/ Update \/ Returned \/ Sleep
    \/ Interrupt \/ InterruptCall \/ EnvVanish \/ EnvWrite \/ EnvTeardown

Spec == Init /\ [][Next]_vars

\* the program alone: no injected failure, no outside change, no interrupt
DeleteOk == DeleteStage(0)
CreateOk == CreateStage(0)
UpdateOk == UpdateStage(0)

NextAlone ==
    \/ Started \/ Enter \/ DeleteOk \/ CreateOk \/ UpdateOk \/ Returned \/ Sleep

SpecAlone == Init /\ [][NextAlone]_vars /\ WF_vars(NextAlone)

TypeOK ==
    /\ pc \in Running \cup {"exit", "interrupted", "crashed"}
    /\ src \in Trees /\ rep \in Trees
    /\ missing \subseteq Monitored

\* ------------------------------------------------------------ properties
\* the number of lines of the iteration with this level and path
LineCount(level, p) ==
    Cardinality({i \in 1..Len(log) : log[i].level = level /\ log[i].item = p})

\* the number of lines of the iteration with one of these levels
LevelCount(levels) == Cardinality({i \in 1..Len(log) : log[i].level \in levels})

\* same files, same folders, same file timestamps
Mirrored ==
    \A p \in Paths : /\ rep[p].kind = src[p].kind
                     /\ rep[p].mtime = src[p].mtime

\* the cycle that has just returned ran with no failing call and no outside
\* change
CleanCycle == pc = "returned" /\ result = "True" /\ errs = {} /\ ~dirty

\* C1 Convergence: after one call of sync_folders in which no filesystem
\* call failed and nothing outside changed a tree, the replica has the files,
\* the folders and the file timestamps of the source.
C1_Convergence == CleanCycle => Mirrored

\* C2 Idempotence: the second of two undisturbed cycles in succession writes
\* no CREATED, DELETED or UPDATED line and makes no call that changes the
\* replica.
C2_Idempotence ==
    (CleanCycle /\ prevCalm /\ prevErrs = {})
        => (ops = 0 /\ LevelCount({CREATED, DELETED, UPDATED}) = 0)

\* C3 Deletion completeness: when no removal failed, after delete_files no
\* path of the to-delete sets exists in the replica and the log holds exactly
\* one DELETED line for each of them.
C3_DeletionCompleteness ==
    (pc = "create" /\ errs = {} /\ ~dirty)
        => \A p \in diff.deleted_folders \cup diff.deleted_files :
              rep[p].kind = "none" /\ LineCount(DELETED, p) = 1

\* C4 Creation completeness: when no call failed, after create_files every
\* path of the to-create sets is in the replica as it is in the source (kind,
\* content, timestamp) and the log holds a CREATED line for each of them.
C4_CreationCompleteness ==
    (pc = "update" /\ errs = {} /\ ~dirty)
        => \A p \in diff.created_folders \cup diff.created_files :
              rep[p] = src[p] /\ LineCount(CREATED, p) >= 1

\* a cycle has returned, the cycle before it left the file p with the source's
\* timestamp on both sides, p is still a file of the source and nothing
\* outside has touched the replica
SyncedBefore(p) ==
    /\ pc = "returned" /\ result = "True"
    /\ lastSync[p] # 0
    /\ src[p].kind = "file"
    /\ outside # "replica"

\* C5 Selective update: a file the cycle before left synchronized gets no
\* UPDATED line and no copy in the next cycle when the source timestamp is
\* the same; when the source timestamp has changed and no call fails, it gets
\* exactly one UPDATED line and the replica file then has the source's
\* content and timestamp.
C5_SelectiveUpdate ==
    \A p \in Paths :
       /\ (SyncedBefore(p) /\ src[p].mtime = lastSync[p])
             => (LineCount(UPDATED, p) = 0 /\ Call("copy2", p) \notin errs)
       /\ (SyncedBefore(p) /\ src[p].mtime # lastSync[p] /\ errs = {})
             => (LineCount(UPDATED, p) = 1 /\ rep[p] = src[p])

C5_Witness ==
    \E p \in Paths : /\ SyncedBefore(p) /\ src[p].mtime # lastSync[p]
                     /\ errs = {} /\ LineCount(UPDATED, p) = 1 /\ rep[p] = src[p]

\* the removal calls among a set of failed calls
RemovalCalls(calls) == {e \in calls : e.op \in {"rmtree", "remove"}}

\* the number of ERROR lines of the iteration that hold this path
ErrorCount(p) == LineCount(ERROR, p)

\* the number of ERROR lines of the iteration that say this path could not be
\* deleted
DeleteErrorCount(p) ==
    Cardinality({i \in 1..Len(log) : log[i] = ErrorLine(p, "could not be deleted")})

\* the removal of the file p was the one removal of the cycle that failed
OneRemovalFailed(calls, p) == RemovalCalls(calls) = {Call("remove", p)}

\* C6 as claimed: when the removal of one replica-only file is the only
\* removal that fails, sync_folders returns True, the log holds exactly one
\* ERROR line with the file's path and no DELETED line for it, and the file is
\* in deleted_files again in the following cycle.
C6_PartialFailure ==
    \A p \in Paths :
       /\ (pc = "returned" /\ ~dirty /\ OneRemovalFailed(errs, p))
             => (result = "True" /\ ErrorCount(p) = 1 /\ LineCount(DELETED, p) = 0)
       /\ (pc = "delete" /\ prevCalm /\ ~dirty /\ OneRemovalFailed(prevErrs, p))
             => p \in diff.deleted_files

\* C6 amended: the same with exactly one ERROR line saying that the file
\* could not be deleted (create_files may add an ERROR line with the same
\* path).
C6_PartialFailureAmended ==
    \A p \in Paths :
       /\ (pc = "returned" /\ ~dirty /\ OneRemovalFailed(errs, p))
             => (result = "True" /\ DeleteErrorCount(p) = 1 /\ LineCount(DELETED, p) = 0)
       /\ (pc = "delete" /\ prevCalm /\ ~dirty /\ OneRemovalFailed(prevErrs, p))
             => p \in diff.deleted_files

C6_Witness ==
    \E p \in Paths : /\ pc = "delete" /\ prevCalm /\ ~dirty
                     /\ OneRemovalFailed(prevErrs, p)
                     /\ p \in diff.deleted_files

\* C7 Cycle-fatal precondition: the call returns False exactly when one of
\* the four monitored paths is missing at its entry, and then it takes no
\* snapshot, changes neither tree and writes no line.
C7_CycleFatal ==
    [][ /\ (pc = "call" /\ pc' = "returned")
            => (result' = "False" /\ missing # {} /\ UNCHANGED <<src, rep, log, diff, missing>>)
        /\ (pc = "call" /\ pc' = "delete") => missing = {}
        /\ (pc = "call" /\ missing # {}) => pc' \in {"call", "returned", "interrupted", "crashed"}
        /\ (result' = "False" /\ result # "False") => (pc = "call" /\ missing # {})
        /\ (result' = "True" /\ pc' = "returned" /\ pc # "returned") => missing = {}
      ]_vars

C7_Witness == pc = "returned" /\ result = "False" /\ "replica" \in missing /\ diff = NoDiff

\* C8 No error escapes a cycle: no step of a running cycle ends the process
\* in the uncaught-error state.
C8_NoErrorEscapes == [][(pc \in InCycle) => (pc' # "crashed")]_vars

\* C9 Eventual self-healing: with no failing call, no outside change and the
\* monitored paths in place, from any pair of trees the loop reaches a point
\* from which the replica mirrors the source and no cycle changes it.
C9_SelfHealing == <>[](Mirrored /\ ops = 0)

C9_Witness == pc = "returned" /\ prevCalm /\ ops > 0 /\ Mirrored

\* C10 A False result is terminal and the loop goes on otherwise: after a
\* False result no cycle starts; the step that opens an iteration leads to
\* the call of sync_folders, the sleep leads to the next iteration, and a
\* call starts from the top of the loop only.
C10_LoopContract ==
    [][ /\ (result = "False") => (result' = "False" /\ pc' \in {"returned", "exit", "interrupted", "crashed"})
        /\ Started => pc' = "call"
        /\ Sleep => pc' = "loop"
        /\ (pc' = "call" /\ pc # "call") => (pc = "loop" /\ diff = NoDiff)
      ]_vars

\* the stage a line of the log belongs to: 0 the line that opens the
\* iteration, 1 delete_files, 2 create_files, 3 update_files, 4 the lines
\* main writes after the call
StageOf(line) ==
    IF line = InfoLine("Started synchronization") THEN 0
    ELSE IF line.level = DELETED \/ line.note = "could not be deleted" THEN 1
    ELSE IF line.level = CREATED \/ line.note = "could not be created" THEN 2
    ELSE IF line.level = UPDATED \/ line.note = "could not be updated" THEN 3
    ELSE 4

LogInStageOrder ==
    \A i, j \in 1..Len(log) : (i < j) => (StageOf(log[i]) <= StageOf(log[j]))

\* C11 Fixed stage order: the snapshot and the diff are taken with the
\* replica untouched, delete_files runs after them and before create_files,
\* create_files before update_files, and in the log of a cycle every line of
\* the deletion stage precedes every line of the creation stage, which
\* precedes every line of the update stage.
C11_StageOrder ==
    [][ /\ Enter => (rep' = rep /\ log' = log)
        /\ (pc' = "delete" /\ pc # "delete") => pc = "call"
        /\ (pc' = "create" /\ pc # "create") => pc = "delete"
        /\ (pc' = "update" /\ pc # "update") => pc = "create"
        /\ (pc' = "returned" /\ pc # "returned" /\ result' = "True") => pc = "update"
        /\ LogInStageOrder'
      ]_vars

C11_Witness ==
    /\ pc = "returned"
    /\ LevelCount({DELETED}) > 0 /\ LevelCount({CREATED}) > 0 /\ LevelCount({UPDATED}) > 0

\* the paths handed to delete_files and to create_files
ToDelete(d) == d.deleted_folders \cup d.deleted_files
ToCreate(d) == d.created_folders \cup d.created_files

\* the replica after the two stages in the order of sync_folders, and in the
\* opposite order, when no call is made to fail
DeleteThenCreate(s, r, d, o) ==
    create_files(d.created_folders, d.created_files, s,
                 delete_files(d.deleted_folders, d.deleted_files, r, o, {}, {}).tree,
                 o, {}, {}).tree
CreateThenDelete(s, r, d, o) ==
    delete_files(d.deleted_folders, d.deleted_files,
                 create_files(d.created_folders, d.created_files, s, r, o, {}, {}).tree,
                 o, {}, {}).tree

\* the order of the two stages makes no difference to the replica
OrderFree(s, r, d) ==
    \A o \in OrdersOf(ToDelete(d) \cup ToCreate(d)) :
        DeleteThenCreate(s, r, d, o) = CreateThenDelete(s, r, d, o)

\* the paths that are a file in one tree and a folder in the other
KindConflicts(s, r) ==
    {p \in Paths : {s[p].kind, r[p].kind} = {"file", "dir"}}

ProgramStep == pc' # pc

\* C13 One-way mirroring: no step of the program, whatever the trees hold
\* and whichever calls fail, changes the source tree: no entry of it is
\* created, deleted or modified and no source timestamp changes.
C13_OneWay == [][ProgramStep => src' = src]_vars

C13_Witness ==
    /\ pc = "returned" /\ result = "True" /\ outside = "none"
    /\ ops > 0 /\ errs # {}

\* the number of lines with this level and path among the lines of a stage
CountIn(lines, level, p) ==
    Cardinality({i \in 1..Len(lines) : lines[i].level = level /\ lines[i].item = p})

\* the outcomes of delete_files on the diff and the replica of this state:
\* every iteration order, at most MaxFail calls made to fail
DeleteRuns ==
    {delete_files(diff.deleted_folders, diff.deleted_files, rep, o, fail, part) :
        o \in OrdersOf(ToDelete(diff)),
        fail \in FailSets(ToDelete(diff), MaxFail),
        part \in SUBSET {p \in Paths : \E f \in diff.deleted_folders : IsUnder(p, f)}}

\* the folder removals that returned
Removed(st) == {c \in Range(st.calls) : c.op = "rmtree" /\ c \notin st.errs}

\* q lies beneath p
IsBeneath(q, p) == IsUnder(q, p) /\ q # p

\* C14 Top-down deletion with cascade skip: the folder removals come in
\* ascending order of depth and before every file removal; after the removal
\* of a folder has succeeded nothing beneath it gets a removal call of its
\* own; and when no call raises, an item beneath a removed folder has no
\* ERROR line and exactly one DELETED line.
C14_TopDownCascade ==
    (pc = "delete") =>
        \A st \in DeleteRuns :
           /\ \A i, j \in 1..Len(st.calls) :
                 (i < j) =>
                    /\ (st.calls[i].op = "rmtree" /\ st.calls[j].op = "rmtree")
                          => count(st.calls[i].path) <= count(st.calls[j].path)
                    /\ ~(st.calls[i].op = "remove" /\ st.calls[j].op = "rmtree")
                    /\ ~(st.calls[i] \in Removed(st)
                           /\ IsBeneath(st.calls[j].path, st.calls[i].path))
           /\ (st.errs = {}) =>
                 \A c \in Removed(st) : \A p \in ToDelete(diff) :
                    IsBeneath(p, c.path) =>
                       /\ CountIn(st.log, ERROR, p) = 0
                       /\ CountIn(st.log, DELETED, p) = 1

\* the number of ERROR lines of the iteration that say this path could not be
\* updated
UpdateErrorCount(p) ==
    Cardinality({i \in 1..Len(log) : log[i] = ErrorLine(p, "could not be updated")})

\* C15 Timestamp-only change detection: in a run of update_files that
\* returns, a common file whose two timestamps differ is copied (the replica
\* file gets the source's content and timestamp and one UPDATED line, or the
\* copy raises and one ERROR line says so), and a common file whose two
\* timestamps are equal is left as it is with no UPDATED line, whatever the
\* contents are.
C15_TimestampOnly ==
    [][ (pc = "update" /\ pc' = "returned") =>
          \A p \in diff.common_files :
             IF getmtime(src, p) # getmtime(rep, p)
             THEN \/ /\ rep'[p] = src[p]
                     /\ LineCount(UPDATED, p)' = 1 /\ UpdateErrorCount(p)' = 0
                  \/ /\ rep'[p] = rep[p] /\ Call("copy2", p) \in errs'
                     /\ LineCount(UPDATED, p)' = 0 /\ UpdateErrorCount(p)' = 1
             ELSE /\ rep'[p] = rep[p]
                  /\ LineCount(UPDATED, p)' = 0 /\ UpdateErrorCount(p)' = 0
      ]_vars

C15_Witness ==
    /\ pc = "returned" /\ result = "True" /\ ~dirty /\ errs = {}
    /\ \E p \in Paths :
          /\ src[p].kind = "file" /\ rep[p].kind = "file"
          /\ src[p].mtime = rep[p].mtime /\ src[p].content # rep[p].content
          /\ LineCount(UPDATED, p) = 0

\* the outcomes of create_files on the diff and the trees of this state
CreateRuns ==
    {create_files(diff.created_folders, diff.created_files, src, rep, o, fail, part) :
        o \in OrdersOf(ToCreate(diff)),
        fail \in FailSets(ToCreate(diff), MaxFail),
        part \in SUBSET {p \in Paths : \E f \in diff.created_folders : IsUnder(p, f)}}

\* the folder copies that returned
Copied(st) == {c \in Range(st.calls) : c.op = "copytree" /\ c \notin st.errs}

\* the item y got a call of its own in the stage
Attempted(st, y) == \E i \in 1..Len(st.calls) : st.calls[i].path = y

\* in a stage where exactly one call raised: one ERROR line with this note
\* for its item, and every other item has a call of its own unless it lies
\* beneath a folder of done (the folders removed, or copied, by a call that
\* returned)
Isolated(st, items, done, note) ==
    \A c \in st.errs :
       (st.errs = {c}) =>
          /\ Cardinality({i \in 1..Len(st.log) : st.log[i] = ErrorLine(c.path, note)}) = 1
          /\ \A y \in items \ {c.path} :
                Attempted(st, y) \/ \E d \in done : IsBeneath(y, d.path)

\* C16 Item failures are isolated: when one removal of delete_files raises,
\* one ERROR line is logged for its item and every other item to delete that
\* does not lie beneath a removed folder is attempted; the same for one copy
\* of create_files; and the stage that follows runs.
C16_FailuresIsolated ==
    [][ /\ (pc = "delete") =>
              /\ \A st \in DeleteRuns :
                    Isolated(st, ToDelete(diff), Removed(st), "could not be deleted")
              /\ (pc' # pc) => pc' \in {"create", "interrupted"}
        /\ (pc = "create") =>
              /\ \A st \in CreateRuns :
                    Isolated(st, ToCreate(diff), Copied(st), "could not be created")
              /\ (pc' # pc) => pc' \in {"update", "interrupted"}
      ]_vars

\* C17 The log is sound: in a cycle with no outside change, at the end of
\* the deletion stage no path with a DELETED line exists in the replica, and
\* at the end of the creation stage every path with a CREATED line exists in
\* the replica.
C17_LogSound ==
    /\ (pc = "create" /\ ~dirty) =>
          \A p \in Paths : (LineCount(DELETED, p) > 0) => rep[p].kind = "none"
    /\ (pc = "update" /\ ~dirty) =>
          \A p \in Paths : (LineCount(CREATED, p) > 0) => rep[p].kind # "none"

\* C18 Deletion never destroys mirrored data: in a cycle with no outside
\* change, the deletion stage changes the replica only by removing paths
\* that the replica holds and the source does not hold with the same kind;
\* every file and folder the two trees share stays as it is, also when the
\* subtree of a folder is removed or a removal fails part-way.
C18_DeletionSafe ==
    [][ (pc = "delete" /\ pc' = "create" /\ ~dirty) =>
          \A p \in Paths :
             (rep'[p] # rep[p]) =>
                /\ rep[p].kind # "none"
                /\ rep'[p] = NoEntry
                /\ src[p].kind # rep[p].kind
      ]_vars

C18_Witness ==
    /\ pc = "create" /\ ~dirty
    /\ \E f, q \in Paths :
          /\ IsBeneath(q, f)
          /\ LineCount(DELETED, f) > 0 /\ LineCount(DELETED, q) > 0
          /\ rep[f].kind = "none" /\ rep[q].kind = "none"
    /\ \E c \in Paths : src[c].kind # "none" /\ rep[c] = src[c]


\* the line the handler of main logs
Interruption == InfoLine("Synchronization interrupted by user. Exiting...")
InterruptionCount == Cardinality({i \in 1..Len(log) : log[i] = Interruption})

\* the line a call is followed by when it returns
LevelOf(call) ==
    IF call.op \in {"rmtree", "remove"} THEN {DELETED} ELSE {CREATED, UPDATED}

\* C19: a KeyboardInterrupt that arrives while main is in a cycle or in the
\* sleep is caught: the process goes to its end through the handler, the
\* log ends with the one INFO line of the interruption, sync_folders is not
\* called or resumed again and the process takes no further step; the call
\* the interrupt cut short has no line of its own and the replica stays as
\* that call left it
C19_InterruptHandling ==
    [][ /\ (Interrupt \/ cut' # cut) => pc' = "interrupted"
        /\ (pc' = "interrupted" /\ pc # "interrupted")
               => /\ pc \in Running
                  /\ InterruptionCount' = 1
                  /\ log'[Len(log')] = Interruption
                  /\ result' = result /\ src' = src
                  /\ (cut' = NoCall) => rep' = rep
                  /\ (cut' # NoCall)
                        => \A i \in 1..Len(log') :
                              ~(log'[i].item = cut'.path /\ log'[i].level \in LevelOf(cut'))
        /\ (pc = "interrupted") => FALSE ]_vars

=========================================================================
